---- MODULE Spec2Model ----
(***************************************************************************)
(* Stream resolution and result caching of comet.                          *)
(*                                                                         *)
(* The repository holds two versions of the stream handler: the monolithic *)
(* one (comet/main.py) and the modular one (comet/api/stream.py).  A       *)
(* deployment runs one of them; `flow` says which.  Requests are asyncio   *)
(* coroutines: every action below is one awaited operation of one request  *)
(* together with the synchronous code that follows it up to the next       *)
(* await.  The cache table is the only state the requests share.           *)
(***************************************************************************)
EXTENDS Integers, Sequences, FiniteSets, TLC

(* ------------------------------ bounds -------------------------------- *)

\* the requests served, in flight together or one after the other
NumRequests == 2

\* settings.CACHE_TTL / env CACHE_TTL, in clock ticks
CACHE_TTL == 1

\* the clock stops ticking here
MaxTime == CACHE_TTL + 1

Req == 1..NumRequests

None == "None"

(* --------------------------- small helpers ---------------------------- *)

Range(s) == {s[i] : i \in 1..Len(s)}

SeqContains(s, x) == \E i \in 1..Len(s) : s[i] = x

RECURSIVE SelectSeqBy(_, _)
\* the subsequence of s whose elements are in the set keep
SelectSeqBy(s, keep) ==
    IF s = <<>> THEN <<>>
    ELSE IF Head(s) \in keep THEN <<Head(s)>> \o SelectSeqBy(Tail(s), keep)
    ELSE SelectSeqBy(Tail(s), keep)

(* ------------------------- request parameters ------------------------- *)

\* the request configurations the gateway may send (already decoded)
ConfigAll == [debridService |-> "realdebrid", indexers |-> <<"idx">>,
              maxResults |-> 2, resolutions |-> <<"All">>, languages |-> <<"All">>]
ConfigFhd == [debridService |-> "realdebrid", indexers |-> <<"idx">>,
              maxResults |-> 1, resolutions |-> <<"1080p">>, languages |-> <<"en">>]

Configs == {ConfigAll, ConfigFhd}

\* /stream/{type}/{id}.json: a movie id, or a series id "tt:2:5"
Types == {"movie", "series"}
\* season and episode are optional: <<n>> when present, <<>> for Python's None
ReqSeason(type) == IF type = "series" THEN <<2>> ELSE <<>>
ReqEpisode(type) == IF type = "series" THEN <<5>> ELSE <<>>

\* title returned by the metadata lookup, after translate()
Name == "Title"

\* a configuration config_check / configChecking refuses
ConfigBad == [debridService |-> "other", indexers |-> <<"idx">>,
              maxResults |-> 0, resolutions |-> <<"All">>, languages |-> <<"All">>]

\* the requests that arrive
Inputs == {[type |-> "movie", config |-> ConfigAll],
           [type |-> "movie", config |-> ConfigFhd],
           [type |-> "series", config |-> ConfigAll],
           [type |-> "movie", config |-> ConfigBad]}

\* the parameters of a slot that holds no request
NoRequest == [type |-> None, config |-> ConfigBad]

(* ---------------------------- fingerprint ----------------------------- *)

\* the dict that is serialised and digested into the cache key; the md5 of
\* the JSON text is taken to be collision-free, so the key is the dict itself
KeyFieldsMain(type, config) ==
    [debridService |-> config.debridService, name |-> Name,
     season |-> ReqSeason(type), episode |-> ReqEpisode(type),
     indexers |-> config.indexers,
     resolutions |-> config.resolutions, languages |-> config.languages]

KeyFieldsApi(type, config) ==
    [debridService |-> config.debridService, name |-> Name,
     season |-> ReqSeason(type), episode |-> ReqEpisode(type),
     indexers |-> config.indexers]

CacheKeyOf(fl, type, config) ==
    IF fl = "main" THEN KeyFieldsMain(type, config) ELSE KeyFieldsApi(type, config)

(* ------------------------ files and torrents -------------------------- *)

\* info hashes as the pipeline sees them; sha1(...).hexdigest() is lower case
Hashes == {"H1", "H2", "h2"}

\* the torrent a hash string denotes, whatever its letter case
Canon(h) == IF h = "h2" THEN "H2" ELSE h

\* str.upper()
Upper(h) == Canon(h)

FileNames == {"S02E04.1080p.mkv", "S02E05.1080p.mkv", "S02E05.720p.mkv",
              "Movie.2160p.mkv", "info.nfo"}

\* is_video / isVideo: the extension decides
IsVideo(filename) == filename # "info.nfo"

\* RTN.parse(filename): season list, episode list, resolution list, languages
Parse(filename) ==
    CASE filename = "S02E04.1080p.mkv" ->
           [season |-> {2}, episode |-> {4}, resolution |-> <<"1080p">>, language |-> {"en"}]
      [] filename = "S02E05.1080p.mkv" ->
           [season |-> {2}, episode |-> {5}, resolution |-> <<"1080p">>, language |-> {"en"}]
      [] filename = "S02E05.720p.mkv" ->
           [season |-> {2}, episode |-> {5}, resolution |-> <<"720p">>, language |-> {}]
      [] filename = "Movie.2160p.mkv" ->
           [season |-> {}, episode |-> {}, resolution |-> <<"2160p">>, language |-> {}]
      [] OTHER ->
           [season |-> {}, episode |-> {}, resolution |-> <<>>, language |-> {}]

\* rtn.rank(title, hash).rank: the oracle's score of a file name
RankOf(filename) ==
    CASE filename = "Movie.2160p.mkv" -> 4
      [] filename = "S02E05.1080p.mkv" -> 3
      [] filename = "S02E04.1080p.mkv" -> 2
      [] filename = "S02E05.720p.mkv" -> 1
      [] OTHER -> 0

\* what the debrid service holds for a hash: details["rd"], a list of
\* variants, each a dict file-index -> file kept here in its key order
RdOf(h) ==
    CASE h = "H1" -> << << [index |-> "1", filename |-> "S02E04.1080p.mkv", filesize |-> 10],
                           [index |-> "2", filename |-> "S02E05.1080p.mkv", filesize |-> 11],
                           [index |-> "3", filename |-> "info.nfo", filesize |-> 1] >>,
                        << [index |-> "2", filename |-> "S02E05.1080p.mkv", filesize |-> 11] >> >>
      [] OTHER    -> << << [index |-> "1", filename |-> "Movie.2160p.mkv", filesize |-> 20],
                           [index |-> "2", filename |-> "info.nfo", filesize |-> 1] >> >>

(* --------------------------- file selection --------------------------- *)

RECURSIVE Flatten(_)
\* the files of all variants, in the order the nested loops visit them
Flatten(variants) ==
    IF variants = <<>> THEN <<>> ELSE Head(variants) \o Flatten(Tail(variants))

\* a file selection that ignores season and episode
FileMatchesAnyVideo(type, file) == IsVideo(file.filename)

\* the test a file must pass to be written into files[hash]
FileMatches(type, file) ==
    /\ IsVideo(file.filename)
    /\ type = "series" =>
          /\ ReqSeason(type)[1] \in Parse(file.filename).season
          /\ ReqEpisode(type)[1] \in Parse(file.filename).episode

\* no file selected for a hash
NoFile == [index |-> None, title |-> None, size |-> 0]

RECURSIVE LastMatch(_, _, _)
\* files[hash] is assigned at every matching file: the last one stays
LastMatch(type, fileSeq, sofar) ==
    IF fileSeq = <<>> THEN sofar
    ELSE LastMatch(type, Tail(fileSeq),
                   IF FileMatches(type, Head(fileSeq))
                   THEN [index |-> Head(fileSeq).index,
                         title |-> Head(fileSeq).filename,
                         size  |-> Head(fileSeq).filesize]
                   ELSE sofar)

\* a selection that creates files[hash] before it looks at the files
SelectFilesKeepAll(type, availability) ==
    [h \in {k \in DOMAIN availability : availability[k].hasRd} |->
        LastMatch(type, Flatten(availability[h].rd), NoFile)]

\* the files dict built from the availability map: hash -> selected file
SelectFiles(type, availability) ==
    LET kept == {h \in DOMAIN availability :
                    /\ availability[h].hasRd
                    /\ LastMatch(type, Flatten(availability[h].rd), NoFile) # NoFile}
    IN [h \in kept |-> LastMatch(type, Flatten(availability[h].rd), NoFile)]

(* ------------------------------ ranking ------------------------------- *)

\* a sort that puts the lowest rank first
SortTorrentsAscending(files) ==
    CHOOSE s \in [1..Cardinality(DOMAIN files) -> DOMAIN files] :
        /\ \A i, j \in DOMAIN s : i < j => s[i] # s[j]
        /\ \A i, j \in DOMAIN s :
              i < j => RankOf(files[s[i]].title) <= RankOf(files[s[j]].title)

\* sort_torrents: the hashes of files, best rank first
SortTorrents(files) ==
    CHOOSE s \in [1..Cardinality(DOMAIN files) -> DOMAIN files] :
        /\ \A i, j \in DOMAIN s : i < j => s[i] # s[j]
        /\ \A i, j \in DOMAIN s :
              i < j => RankOf(files[s[i]].title) >= RankOf(files[s[j]].title)

\* model_dump() of a ranked torrent with title, size and index of the
\* selected file merged into its data
RankedData(files, h) ==
    [resolution |-> Parse(files[h].title).resolution,
     title |-> files[h].title, size |-> files[h].size, index |-> files[h].index]

\* sorted_ranked_files: an ordered dict hash -> {"data": ...}
RankedDict(files) ==
    [keys |-> SortTorrents(files),
     val  |-> [h \in DOMAIN files |-> RankedData(files, h)]]

EmptyDict == [keys |-> <<>>, val |-> <<>>]

(* ------------------------------- JSON --------------------------------- *)

\* json.dumps of an ordered dict: the members "key": value in dict order
JsonDumps(d) == [i \in 1..Len(d.keys) |-> <<d.keys[i], d.val[d.keys[i]]>>]

RECURSIVE FirstKeys(_, _)
FirstKeys(text, seen) ==
    IF text = <<>> THEN <<>>
    ELSE IF Head(text)[1] \in seen THEN FirstKeys(Tail(text), seen)
    ELSE <<Head(text)[1]>> \o FirstKeys(Tail(text), seen \cup {Head(text)[1]})

\* json.loads: keys in order of first appearance, the last value of a key
JsonLoads(text) ==
    [keys |-> FirstKeys(text, {}),
     val  |-> [k \in {text[i][1] : i \in 1..Len(text)} |->
                 LET last == CHOOSE i \in 1..Len(text) :
                                /\ text[i][1] = k
                                /\ \A j \in 1..Len(text) : text[j][1] = k => j <= i
                 IN text[last][2]]]

(* ------------------------- balanced selection ------------------------- *)

\* the resolution bucket of a ranked entry
BucketOf(d, h) ==
    IF Len(d.val[h].resolution) > 0 THEN d.val[h].resolution[1] ELSE "Unknown"

\* an entry passes the allow-list when the list holds "All", when the entry
\* has no parsed resolution, or when its first resolution is listed
Allowed(d, h, config) ==
    \/ SeqContains(config.resolutions, "All")
    \/ Len(d.val[h].resolution) = 0
    \/ SeqContains(config.resolutions, d.val[h].resolution[1])

RECURSIVE BucketNames(_, _, _)
\* the buckets with an eligible entry, in the order the ranking meets them
BucketNames(d, hs, seen) ==
    IF hs = <<>> THEN <<>>
    ELSE IF BucketOf(d, Head(hs)) \in seen THEN BucketNames(d, Tail(hs), seen)
    ELSE <<BucketOf(d, Head(hs))>>
            \o BucketNames(d, Tail(hs), seen \cup {BucketOf(d, Head(hs))})

Eligible(d, config) == SelectSeqBy(d.keys, {h \in Range(d.keys) : Allowed(d, h, config)})

BucketHashes(d, config, b) ==
    SelectSeqBy(Eligible(d, config), {h \in Range(d.keys) : BucketOf(d, h) = b})

Min(a, b) == IF a <= b THEN a ELSE b

RECURSIVE TopUp(_, _, _, _, _)
\* hand the quota the first pass left unused to the buckets, in bucket order
TopUp(d, config, names, taken, missing) ==
    IF names = <<>> THEN <<>>
    ELSE LET all  == BucketHashes(d, config, Head(names))
             have == Head(taken)
             more == Min(missing, Len(all) - have)
         IN <<[resolution |-> Head(names), hashes |-> SubSeq(all, 1, have + more)]>>
               \o TopUp(d, config, Tail(names), Tail(taken), missing - more)

RECURSIVE SumSeq(_)
SumSeq(s) == IF s = <<>> THEN 0 ELSE Head(s) + SumSeq(Tail(s))

\* get_balanced_hashes: resolution bucket -> the hashes shown for it; the
\* cap is shared out evenly over the buckets, the remainder going to the
\* first ones, and what a short bucket leaves is handed on
GetBalancedHashes(d, config) ==
    LET names == BucketNames(d, Eligible(d, config), {})
        n     == Len(names)
        per   == IF n = 0 THEN 0 ELSE config.maxResults \div n
        extra == IF n = 0 THEN 0 ELSE config.maxResults % n
        taken == [i \in 1..n |->
                    Min(Len(BucketHashes(d, config, names[i])),
                        per + (IF i <= extra THEN 1 ELSE 0))]
    IN TopUp(d, config, names, taken, config.maxResults - SumSeq(taken))

(* ------------------------------ streams ------------------------------- *)

\* one element of the "streams" list
StreamOf(d, h) ==
    [name  |-> BucketOf(d, h),
     title |-> <<d.val[h].title, d.val[h].size>>,
     url   |-> <<h, d.val[h].index>>]

RECURSIVE BucketStreams(_, _, _)
\* the inner loop: one stream for every bucket that lists the hash
BucketStreams(d, h, balanced) ==
    IF balanced = <<>> THEN <<>>
    ELSE (IF SeqContains(Head(balanced).hashes, h) THEN <<StreamOf(d, h)>> ELSE <<>>)
            \o BucketStreams(d, h, Tail(balanced))

RECURSIVE StreamsBalanced(_, _, _)
\* the outer loop of comet/api/stream.py, in ranking order
StreamsBalanced(d, hs, balanced) ==
    IF hs = <<>> THEN <<>>
    ELSE BucketStreams(d, Head(hs), balanced) \o StreamsBalanced(d, Tail(hs), balanced)

\* the loop of comet/main.py: every ranked entry, in ranking order
StreamsAll(d) == [i \in 1..Len(d.keys) |-> StreamOf(d, d.keys[i])]

\* the stream list a request returns for a ranked dict
BuildStreams(fl, d, config) ==
    IF fl = "main" THEN StreamsAll(d)
    ELSE StreamsBalanced(d, d.keys, GetBalancedHashes(d, config))

(* ----------------------- candidates and hashes ------------------------ *)

\* indexer results; InfoHash and Link are optional (<<>> when missing)
Cand1 == [Title |-> "Title.1080p", InfoHash |-> <<"H1">>, Link |-> <<>>, zilean |-> FALSE]
Cand2 == [Title |-> "Title.2160p", InfoHash |-> <<>>, Link |-> <<"L2">>, zilean |-> FALSE]
\* the torrent of Cand2 as another indexer lists it, with its hash
Cand3 == [Title |-> "Title", InfoHash |-> <<"H2">>, Link |-> <<>>, zilean |-> FALSE]
\* a result that carries neither a hash nor a download link
Cand4 == [Title |-> "Title", InfoHash |-> <<>>, Link |-> <<>>, zilean |-> FALSE]

\* Zilean results, turned into candidates that carry their hash
Zil1 == [Title |-> "Title.1080p", InfoHash |-> <<"H1">>, Link |-> <<>>, zilean |-> TRUE]
Zil2 == [Title |-> "Other.720p", InfoHash |-> <<"H2">>, Link |-> <<>>, zilean |-> TRUE]

\* what one indexer sub-query may give back: None after an exception, or
\* the list of its results
SearchOutcomes ==
    {[isNone |-> TRUE, results |-> <<>>]}
        \cup {[isNone |-> FALSE, results |-> l] :
                 l \in {<<>>, <<Cand1, Cand2, Cand3>>, <<Cand1, Cand4>>}}

\* the same for the "S0{season}E0{episode}" sub-query of a series request
EpisodeOutcomes ==
    {[isNone |-> TRUE, results |-> <<>>]}
        \cup {[isNone |-> FALSE, results |-> l] : l \in {<<Cand1>>}}

\* a movie request runs no second sub-query
NoSubQuery == [isNone |-> FALSE, results |-> <<>>]

\* a sub-query's contribution to torrents: None is skipped
Contribution(outcome) == IF outcome.isNone THEN <<>> ELSE outcome.results

RECURSIVE CollectUntilNone(_)
\* a loop that stops at the first None instead of skipping it
CollectUntilNone(responses) ==
    IF responses = <<>> \/ Head(responses).isNone THEN <<>>
    ELSE Head(responses).results \o CollectUntilNone(Tail(responses))

RECURSIVE Collect(_)
\* torrents: the results of every sub-query that did not give None
Collect(responses) ==
    IF responses = <<>> THEN <<>>
    ELSE Contribution(Head(responses)) \o Collect(Tail(responses))

ZileanOutcomes == {<<>>, <<Zil1, Zil2>>}

\* RTN.parse of a candidate title
ParseTitle(title) ==
    CASE title = "Title.1080p" ->
           [parsed_title |-> "Title", resolution |-> <<"1080p">>, language |-> {"en"},
            is_multi_audio |-> FALSE]
      [] title = "Title.2160p" ->
           [parsed_title |-> "Title", resolution |-> <<"2160p">>, language |-> {},
            is_multi_audio |-> FALSE]
      [] title = "Other.720p" ->
           [parsed_title |-> "Other", resolution |-> <<"720p">>, language |-> {},
            is_multi_audio |-> FALSE]
      [] OTHER ->
           [parsed_title |-> "Title", resolution |-> <<>>, language |-> {},
            is_multi_audio |-> TRUE]

\* comet/main.py drops candidates by resolution and language before it
\* resolves their hashes
PassesMainFilters(cand, config) ==
    LET p == ParseTitle(cand.Title) IN
    /\ ~ (/\ ~ SeqContains(config.resolutions, "All")
          /\ Len(p.resolution) > 0
          /\ ~ SeqContains(config.resolutions, p.resolution[1]))
    /\ ~ (/\ ~ SeqContains(config.languages, "All")
          /\ ~ p.is_multi_audio
          /\ ~ \E l \in Range(config.languages) : l \in p.language)

\* comet/api/stream.py drops only Zilean candidates whose title does not
\* match the requested name
PassesApiFilters(cand) ==
    cand.zilean => ParseTitle(cand.Title).parsed_title = Name

\* the candidates whose hash is resolved
TasksOf(fl, torrentSeq, config) ==
    SelectSeqBy(torrentSeq,
                {c \in Range(torrentSeq) :
                    IF fl = "main" THEN PassesMainFilters(c, config)
                    ELSE PassesApiFilters(c)})

\* what the download link of a candidate answers
FetchOutcomes == {"exception", "torrent", "redirect", "nolocation"}

\* the SHA-1 hex digest of the info dictionary behind a link
TorrentDigest(link) == IF link = "L2" THEN "h2" ELSE "h1"

\* the 40 hex characters found in the Location header of a redirect
LocationHash(link) == IF link = "L2" THEN "h2" ELSE "h1"

\* url = torrent["Link"] stands before the try: without an InfoHash and
\* without the key, getTorrentHash raises KeyError
RaisesKeyError(cand) == cand.InfoHash = <<>> /\ cand.Link = <<>>

\* getTorrentHash: <<hash>>, or <<>> when nothing is returned
GetTorrentHash(cand, outcome) ==
    IF cand.InfoHash # <<>> THEN cand.InfoHash
    ELSE IF RaisesKeyError(cand) THEN <<>>
    ELSE IF outcome = "torrent" THEN <<TorrentDigest(cand.Link[1])>>
    ELSE IF outcome = "redirect" THEN <<Upper(LocationHash(cand.Link[1]))>>
    ELSE <<>>

(* --------------------------- the cache table --------------------------- *)

\* CREATE TABLE cache (cacheKey BLOB PRIMARY KEY, timestamp INTEGER,
\* results TEXT): the rows, in insertion order

\* SELECT ... FROM cache WHERE cacheKey = k
RowsOf(c, k) == SelectSeqBy(c, {row \in Range(c) : row.cacheKey = k})

\* SELECT EXISTS (SELECT 1 FROM cache WHERE cacheKey = k)
Exists(c, k) == RowsOf(c, k) # <<>>

\* a DELETE without its WHERE clause
DeleteAll(c, k) == <<>>

\* a DELETE that removes nothing
DeleteNothing(c, k) == c

\* DELETE FROM cache WHERE cacheKey = k
DeleteKey(c, k) == SelectSeqBy(c, {row \in Range(c) : row.cacheKey # k})

\* a table without the PRIMARY KEY constraint
UniqueConflictNever(c, k) == FALSE

\* the PRIMARY KEY constraint on cacheKey
UniqueConflict(c, k) == \E i \in 1..Len(c) : c[i].cacheKey = k

\* INSERT OR IGNORE INTO cache ...: a conflicting row is silently dropped
InsertOrIgnore(c, row) == IF UniqueConflict(c, row.cacheKey) THEN c ELSE Append(c, row)

\* INSERT INTO cache ...: the table when the statement succeeds
Insert(c, row) == Append(c, row)

\* an expiry test that gives an entry one more second
ExpiredLate(timestamp, time) == timestamp + CACHE_TTL + 1 < time

\* timestamp[0] + CACHE_TTL < time.time()
Expired(timestamp, time) == timestamp + CACHE_TTL < time

(* ------------------------------- state -------------------------------- *)

VARIABLES
    flow,            \* "main": comet/main.py, "api": comet/api/stream.py
    now,             \* time.time()
    cache,           \* the rows of table cache
    pc,              \* per request: the await it is suspended at
    req,             \* per request: type and decoded config
    search_response, \* per request: what the indexer sub-queries returned
    torrents,        \* per request: the candidates collected
    torrent_hashes,  \* per request: the resolved, deduplicated hashes
    availability,    \* per request: the availability map of the debrid service
    ranked,          \* per request: sorted_ranked_files
    stmt_time,       \* per request: time.time() written into the INSERT
    response,        \* per request: what the handler returned or raised
    events,          \* per request: components invoked, early returns (history)
    via,             \* per request: the outcome of its cache lookup (history)
    lastStore        \* per key: the ranked dict of the latest store (history)

vars == <<flow, now, cache, pc, req, search_response, torrents, torrent_hashes, availability,
          ranked, stmt_time, response, events, via, lastStore>>

VARIABLES
    dl_pc,           \* per playback: the await generateDownloadLink is suspended at
    proxy,           \* per playback: the proxy of the calls, <<>> for None
    addMagnet,       \* per playback: the answer of addMagnet, <<>> before it
    selectFile,      \* per playback: the answer of selectFiles, <<>> before it
    getMagnetInfo,   \* per playback: the torrent info read last
    unrestrictLink,  \* per playback: the answer of unrestrict/link, <<>> before it
    caught,          \* per playback: the except branch was taken
    downloadLink,    \* per playback: what generateDownloadLink returned
    playback,        \* per playback: what the handler returned
    failed           \* per playback: the steps that failed (history)

pvars == <<dl_pc, proxy, addMagnet, selectFile, getMagnetInfo, unrestrictLink,
           caught, downloadLink, playback, failed>>

VARIABLES
    indexerManagerType,  \* INDEXER_MANAGER_TYPE of the deployment
    t_pc,                \* the gather the timed request is suspended at
    calls,               \* per task: the call in flight, how long it waits, its result
    t_response           \* what the timed request returned

tvars == <<indexerManagerType, t_pc, calls, t_response>>

VARIABLE
    resolutions      \* the torrent files fetched so far and the hash derived from each

hvars == <<resolutions>>

allvars == <<vars, pvars, tvars, hvars>>

\* playback requests in flight together
NumPlaybacks == 2

\* torrent files fetched in one behaviour
MaxResolutions == 2

\* the sub-queries of a series request, and one fetch for the candidate of each
QueryTasks == {"title", "episode"}

FetchTasks == {"fetch1", "fetch2"}

Tasks == QueryTasks \cup FetchTasks

NoCall == [at |-> "idle", waited |-> 0, hung |-> FALSE, result |-> "none"]

Plays == 1..NumPlaybacks

NoResponse == [status |-> "none", streams |-> <<>>, error |-> None]

Returned(streamSeq) == [status |-> "returned", streams |-> streamSeq, error |-> None]

Raised(what) == [status |-> "raised", streams |-> <<>>, error |-> what]

\* the single explanatory stream of a request that cannot be served
Degraded(text) ==
    <<[name |-> "[!] Comet", title |-> <<text, 0>>, url |-> <<"https://comet.fast", None>>]>>

NoAvailability == [h \in {} |-> [hasRd |-> FALSE, rd |-> <<>>]]

CacheKey(r) == CacheKeyOf(flow, req[r].type, req[r].config)

\* the availability map: the hashes answered for, with "rd" for the cached
AvailabilityOf(answered, cached) ==
    [h \in answered |->
        IF h \in cached THEN [hasRd |-> TRUE, rd |-> RdOf(Canon(h))]
        ELSE [hasRd |-> FALSE, rd |-> <<>>]]

\* the dict handed to the cache: the ranked files of the availability map
RankedToStore(type, avail) == RankedDict(SelectFiles(type, avail))

\* the row of the INSERT statement
RowOf(key, d, time) == [cacheKey |-> key, timestamp |-> time, results |-> JsonDumps(d)]

\* database.db outlives the process: the table may hold a row that an
\* earlier run stored at time 0 for a movie request
PersistedRow(fl) ==
    RowOf(CacheKeyOf(fl, "movie", ConfigAll),
          RankedToStore("movie", AvailabilityOf({"H1", "h2"}, {"H1", "h2"})), 0)

Init ==
    /\ flow \in {"main", "api"}
    /\ now = 0
    /\ cache \in {<<>>, <<PersistedRow(flow)>>}
    /\ pc = [r \in Req |-> "idle"]
    /\ req = [r \in Req |-> NoRequest]
    /\ search_response = [r \in Req |-> <<>>]
    /\ torrents = [r \in Req |-> <<>>]
    /\ torrent_hashes = [r \in Req |-> {}]
    /\ availability = [r \in Req |-> NoAvailability]
    /\ ranked = [r \in Req |-> EmptyDict]
    /\ stmt_time = [r \in Req |-> 0]
    /\ response = [r \in Req |-> NoResponse]
    /\ events = [r \in Req |-> {}]
    /\ via = [r \in Req |-> "none"]
    /\ lastStore = {[cacheKey |-> cache[i].cacheKey, dict |-> JsonLoads(cache[i].results)] :
                        i \in 1..Len(cache)}
    /\ dl_pc = [p \in Plays |-> "idle"]
    /\ proxy = [p \in Plays |-> <<>>]
    /\ addMagnet = [p \in Plays |-> <<>>]
    /\ selectFile = [p \in Plays |-> <<>>]
    /\ getMagnetInfo = [p \in Plays |-> "none"]
    /\ unrestrictLink = [p \in Plays |-> <<>>]
    /\ caught = [p \in Plays |-> FALSE]
    /\ downloadLink = [p \in Plays |-> "none"]
    /\ playback = [p \in Plays |-> "none"]
    /\ failed = [p \in Plays |-> {}]
    /\ indexerManagerType = "jackett"
    /\ t_pc = "idle"
    /\ calls = [t \in Tasks |-> NoCall]
    /\ t_response = "none"
    /\ resolutions = {}

(* ------------------------ steps of a request --------------------------- *)

\* configChecking / config_check on the decoded configuration
ConfigCheck(config) ==
    /\ config.debridService \in {"realdebrid"}
    /\ config.maxResults >= 0
    /\ Len(config.resolutions) # 0
    /\ Len(config.languages) # 0

\* the locals of a handler that has returned or raised are gone
DropLocals(r) ==
    /\ search_response' = [search_response EXCEPT ![r] = <<>>]
    /\ torrents' = [torrents EXCEPT ![r] = <<>>]
    /\ torrent_hashes' = [torrent_hashes EXCEPT ![r] = {}]
    /\ availability' = [availability EXCEPT ![r] = NoAvailability]
    /\ ranked' = [ranked EXCEPT ![r] = EmptyDict]
    /\ stmt_time' = [stmt_time EXCEPT ![r] = 0]

\* the handler returns or raises
Finish(r, resp) ==
    /\ pc' = [pc EXCEPT ![r] = "done"]
    /\ response' = [response EXCEPT ![r] = resp]
    /\ DropLocals(r)

\* the handler suspends at its next await
Goto(r, label) ==
    /\ pc' = [pc EXCEPT ![r] = label]
    /\ UNCHANGED response

Record(r, what) == events' = [events EXCEPT ![r] = @ \cup what]

\* a request arrives and its configuration is checked
Start(r) ==
    /\ pc[r] = "idle"
    /\ \A q \in Req : q < r => pc[q] # "idle"     \* requests are numbered as they arrive
    /\ \E input \in Inputs :
          /\ req' = [req EXCEPT ![r] = input]
          /\ IF ~ ConfigCheck(input.config)
             THEN Finish(r, Returned(Degraded("Invalid Comet config.")))
             ELSE /\ Goto(r, "premium")
                  /\ UNCHANGED <<search_response, torrents, torrent_hashes, availability, ranked, stmt_time>>
    /\ UNCHANGED <<flow, now, cache, events, via, lastStore>>
    /\ UNCHANGED pvars
    /\ UNCHANGED tvars
    /\ UNCHANGED hvars

\* a handler that looks the cache up first and checks the account after
CheckPremiumAfterLookup(r) ==
    /\ pc[r] = "premium"
    /\ \E premium \in BOOLEAN :
          IF ~ premium
          THEN /\ Finish(r, Returned(Degraded("Invalid account.")))
               /\ Record(r, {"ResultCache"})
          ELSE /\ Goto(r, "metadata")
               /\ UNCHANGED <<search_response, torrents, torrent_hashes, availability, ranked,
                              stmt_time, events>>
    /\ UNCHANGED <<flow, now, cache, req, via, lastStore>>
    /\ UNCHANGED pvars
    /\ UNCHANGED tvars
    /\ UNCHANGED hvars

\* the account check of the debrid service answers
CheckPremium(r) ==
    /\ pc[r] = "premium"
    /\ \E premium \in BOOLEAN :
          IF ~ premium
          THEN Finish(r, Returned(Degraded("Invalid account.")))
          ELSE /\ Goto(r, "metadata")
               /\ UNCHANGED <<search_response, torrents, torrent_hashes, availability, ranked, stmt_time>>
    /\ UNCHANGED <<flow, now, cache, req, events, via, lastStore>>
    /\ UNCHANGED pvars
    /\ UNCHANGED tvars
    /\ UNCHANGED hvars

\* the metadata lookup answers, or fails: nothing catches its exception
Metadata(r) ==
    /\ pc[r] = "metadata"
    /\ \E ok \in BOOLEAN :
          IF ~ ok
          THEN Finish(r, Raised("metadata"))
          ELSE /\ Goto(r, "exists")
               /\ UNCHANGED <<search_response, torrents, torrent_hashes, availability, ranked, stmt_time>>
    /\ UNCHANGED <<flow, now, cache, req, events, via, lastStore>>
    /\ UNCHANGED pvars
    /\ UNCHANGED tvars
    /\ UNCHANGED hvars

\* SELECT EXISTS ...: is there a row for the key
LookupExists(r) ==
    /\ pc[r] = "exists"
    /\ Record(r, {"ResultCache"})
    /\ IF Exists(cache, CacheKey(r))
       THEN /\ Goto(r, "timestamp")
            /\ UNCHANGED via
       ELSE /\ Goto(r, "search")
            /\ via' = [via EXCEPT ![r] = "miss"]
    /\ UNCHANGED <<flow, now, cache, req, search_response, torrents, torrent_hashes,
                   availability, ranked, stmt_time, lastStore>>
    /\ UNCHANGED pvars
    /\ UNCHANGED tvars
    /\ UNCHANGED hvars

\* what follows the read of the timestamp
AfterTimestamp(timestamp, time) ==
    IF Expired(timestamp, time) THEN "delete" ELSE "results"

\* SELECT timestamp ...: fetch_one gives None when the row is gone, and
\* timestamp[0] then raises TypeError
LookupTimestamp(r) ==
    /\ pc[r] = "timestamp"
    /\ LET rows == RowsOf(cache, CacheKey(r)) IN
       IF rows = <<>>
       THEN /\ Finish(r, Raised("TypeError"))
            /\ UNCHANGED via
       ELSE /\ Goto(r, AfterTimestamp(rows[1].timestamp, now))
            /\ via' = [via EXCEPT ![r] =
                          IF AfterTimestamp(rows[1].timestamp, now) = "delete"
                          THEN "expired" ELSE @]
            /\ UNCHANGED <<search_response, torrents, torrent_hashes, availability, ranked, stmt_time>>
    /\ UNCHANGED <<flow, now, cache, req, events, lastStore>>
    /\ UNCHANGED pvars
    /\ UNCHANGED tvars
    /\ UNCHANGED hvars

\* where a request goes once it has deleted the expired entry
AfterDelete == "search"

\* DELETE FROM cache WHERE cacheKey = ...
LookupDelete(r) ==
    /\ pc[r] = "delete"
    /\ cache' = DeleteKey(cache, CacheKey(r))
    /\ lastStore' = {s \in lastStore : s.cacheKey # CacheKey(r)}
    /\ Goto(r, AfterDelete)
    /\ UNCHANGED <<flow, now, req, search_response, torrents, torrent_hashes,
                   availability, ranked, stmt_time, events, via>>
    /\ UNCHANGED pvars
    /\ UNCHANGED tvars
    /\ UNCHANGED hvars

\* the components a request uses to turn a ranked dict into streams
Presenters(fl) == IF fl = "api" THEN {"BalancedSelector"} ELSE {}

\* a hit branch that lists every cached entry
HitStreamsUncapped(fl, text, config) == StreamsAll(JsonLoads(text))

\* the stream list of a fresh hit, from the stored text
HitStreams(fl, text, config) == BuildStreams(fl, JsonLoads(text), config)

\* a hit branch without its return
AfterHitFallsThrough == "search"

\* return {"streams": results}: the hit path ends the handler
AfterHit == "done"

\* SELECT results ...: the cached ranked dict is turned into streams
LookupResults(r) ==
    /\ pc[r] = "results"
    /\ LET rows == RowsOf(cache, CacheKey(r)) IN
       IF rows = <<>>
       THEN /\ Finish(r, Raised("TypeError"))
            /\ UNCHANGED <<via, events>>
       ELSE /\ pc' = [pc EXCEPT ![r] = AfterHit]
            /\ response' = [response EXCEPT ![r] =
                               Returned(HitStreams(flow, rows[1].results, req[r].config))]
            /\ DropLocals(r)
            /\ via' = [via EXCEPT ![r] = "hit"]
            /\ Record(r, Presenters(flow))
    /\ UNCHANGED <<flow, now, cache, req, lastStore>>
    /\ UNCHANGED pvars
    /\ UNCHANGED tvars
    /\ UNCHANGED hvars

(* ------------------------- the search pipeline ------------------------- *)

\* return {"streams": []}: a stage of the pipeline found nothing
ReturnEmpty(r, invoked) ==
    /\ Finish(r, Returned(<<>>))
    /\ Record(r, invoked \cup {"EmptyResult"})

\* len(torrents) == 0 returns an empty list; otherwise the candidates that
\* pass the filters get a hash-resolution task each
AfterCandidates(r, responses, found, invoked) ==
    IF Len(found) = 0
    THEN ReturnEmpty(r, invoked)
    ELSE /\ Goto(r, "hashes")
         /\ Record(r, invoked)
         /\ search_response' = [search_response EXCEPT ![r] = responses]
         /\ torrents' = [torrents EXCEPT ![r] = TasksOf(flow, found, req[r].config)]
         /\ UNCHANGED <<torrent_hashes, availability, ranked, stmt_time>>

\* asyncio.gather of the indexer sub-queries comes back
Search(r) ==
    /\ pc[r] = "search"
    /\ \E first \in SearchOutcomes,
          second \in (IF req[r].type = "series" THEN EpisodeOutcomes ELSE {NoSubQuery}) :
          LET responses == IF req[r].type = "series" THEN <<first, second>> ELSE <<first>>
              found     == Collect(responses)
              invoked   == {"IndexerAggregator"}
          IN
          \/ AfterCandidates(r, responses, found, invoked)
          \/ /\ flow = "api"                  \* settings.ZILEAN_URL is set
             /\ Goto(r, "zilean")
             /\ Record(r, invoked)
             /\ search_response' = [search_response EXCEPT ![r] = responses]
             /\ torrents' = [torrents EXCEPT ![r] = found]
             /\ UNCHANGED <<torrent_hashes, availability, ranked, stmt_time>>
    /\ UNCHANGED <<flow, now, cache, req, via, lastStore>>
    /\ UNCHANGED pvars
    /\ UNCHANGED tvars
    /\ UNCHANGED hvars

\* the Zilean search answers; an exception leaves torrents as it was
Zilean(r) ==
    /\ pc[r] = "zilean"
    /\ \E extra \in ZileanOutcomes :
          AfterCandidates(r, search_response[r], torrents[r] \o extra, {})
    /\ UNCHANGED <<flow, now, cache, req, via, lastStore>>
    /\ UNCHANGED pvars
    /\ UNCHANGED tvars
    /\ UNCHANGED hvars

\* list(set(hash for hash in torrent_hashes if hash))
ResolvedSet(tasks, outcomes) ==
    UNION {Range(GetTorrentHash(tasks[i],
                                IF i \in DOMAIN outcomes THEN outcomes[i] ELSE "hint")) :
              i \in 1..Len(tasks)}

\* the tasks that fetch their download link: those without a hash hint
Fetching(tasks) ==
    {i \in 1..Len(tasks) : tasks[i].InfoHash = <<>> /\ ~ RaisesKeyError(tasks[i])}

\* asyncio.gather of the hash resolutions comes back
ResolveHashes(r) ==
    /\ pc[r] = "hashes"
    /\ \E outcomes \in [Fetching(torrents[r]) -> FetchOutcomes] :
          LET resolved == ResolvedSet(torrents[r], outcomes)
              invoked  == IF Len(torrents[r]) > 0 THEN {"HashResolver"} ELSE {}
          IN IF \E i \in 1..Len(torrents[r]) : RaisesKeyError(torrents[r][i])
             THEN /\ Finish(r, Raised("KeyError"))    \* gather re-raises it
                  /\ Record(r, invoked)
             ELSE IF Cardinality(resolved) = 0
             THEN ReturnEmpty(r, invoked)
             ELSE /\ Goto(r, "avail")
                  /\ Record(r, invoked)
                  /\ torrent_hashes' = [torrent_hashes EXCEPT ![r] = resolved]
                  /\ search_response' = [search_response EXCEPT ![r] = <<>>]
                  /\ torrents' = [torrents EXCEPT ![r] = <<>>]
                  /\ UNCHANGED <<availability, ranked, stmt_time>>
    /\ UNCHANGED <<flow, now, cache, req, via, lastStore>>
    /\ UNCHANGED pvars
    /\ UNCHANGED tvars
    /\ UNCHANGED hvars

\* a pipeline without the empty-result return
NothingRankedNever(d) == FALSE

\* len(sorted_ranked_files) == 0
NothingRanked(d) == Len(d.keys) = 0

\* the availability check comes back; files are selected, ranked and sorted
Availability(r) ==
    /\ pc[r] = "avail"
    /\ \/ \E answered \in SUBSET torrent_hashes[r] :
            /\ flow = "main" => answered = torrent_hashes[r]
            /\ \E cached \in SUBSET answered :
                 LET avail == AvailabilityOf(answered, cached)
                     d     == RankedToStore(req[r].type, avail)
                 IN IF NothingRanked(d)
                    THEN ReturnEmpty(r, {"AvailabilityChecker"})
                    ELSE /\ Goto(r, "store")
                         /\ Record(r, {"AvailabilityChecker"})
                         /\ availability' = [availability EXCEPT ![r] = avail]
                         /\ ranked' = [ranked EXCEPT ![r] = d]
                         /\ stmt_time' = [stmt_time EXCEPT ![r] = now]
                         /\ torrent_hashes' = [torrent_hashes EXCEPT ![r] = {}]
                         /\ UNCHANGED <<search_response, torrents>>
       \/ \* the single request of comet/main.py fails, or response.json() of
          \* one answer fails in comet/api/stream.py: nothing catches it
          /\ Finish(r, Raised("availability"))
          /\ Record(r, {"AvailabilityChecker"})
    /\ UNCHANGED <<flow, now, cache, req, via, lastStore>>
    /\ UNCHANGED pvars
    /\ UNCHANGED tvars
    /\ UNCHANGED hvars

\* the stream list of the miss path
MissStreams(fl, d, config) == BuildStreams(fl, d, config)

\* the INSERT is executed and the streams are built
Store(r) ==
    /\ pc[r] = "store"
    /\ LET row == RowOf(CacheKey(r), ranked[r], stmt_time[r]) IN
       /\ lastStore' = {s \in lastStore : s.cacheKey # CacheKey(r)}
                          \cup {[cacheKey |-> CacheKey(r), dict |-> ranked[r]]}
       /\ IF flow = "main" /\ UniqueConflict(cache, row.cacheKey)
          THEN /\ UNCHANGED cache            \* sqlite3.IntegrityError
               /\ Record(r, {"ResultCache.store"})
               /\ Finish(r, Raised("IntegrityError"))
          ELSE /\ cache' = IF flow = "main" THEN Insert(cache, row)
                           ELSE InsertOrIgnore(cache, row)
               /\ Record(r, {"ResultCache.store"} \cup Presenters(flow))
               /\ Finish(r, Returned(MissStreams(flow, ranked[r], req[r].config)))
    /\ UNCHANGED <<flow, now, req, via>>
    /\ UNCHANGED pvars
    /\ UNCHANGED tvars
    /\ UNCHANGED hvars

\* time passes
Tick ==
    /\ now < MaxTime
    /\ now' = now + 1
    /\ UNCHANGED <<flow, cache, pc, req, search_response, torrents, torrent_hashes, availability,
                   ranked, stmt_time, response, events, via, lastStore>>
    /\ UNCHANGED pvars
    /\ UNCHANGED tvars
    /\ UNCHANGED hvars

Next ==
    \/ \E r \in Req : Start(r)
    \/ \E r \in Req : CheckPremium(r)
    \/ \E r \in Req : Metadata(r)
    \/ \E r \in Req : LookupExists(r)
    \/ \E r \in Req : LookupTimestamp(r)
    \/ \E r \in Req : LookupDelete(r)
    \/ \E r \in Req : LookupResults(r)
    \/ \E r \in Req : Search(r)
    \/ \E r \in Req : Zilean(r)
    \/ \E r \in Req : ResolveHashes(r)
    \/ \E r \in Req : Availability(r)
    \/ \E r \in Req : Store(r)
    \/ Tick

Spec == Init /\ [][Next]_allvars

\* a deployment of the modular handler, comet/api/stream.py
InitApi == Init /\ flow = "api"

SpecApi == InitApi /\ [][Next]_allvars

(* --------------------- playback: generateDownloadLink ------------------ *)

\* the URL the except branch of generateDownloadLink returns
FallbackUrl == "https://comet.fast"

\* unrestrictLink["download"]
DirectUrl == "https://download.real-debrid.com/d/file"

\* what one call of the debrid service can do: answer as expected, answer an
\* error document (aiohttp raises nothing on an HTTP error status), or raise
CallOutcomes == {"ok", "error", "exception"}

\* the awaits of generateDownloadLink, in program order
NextStepSkipsReread(step) ==
    CASE step = "probe" -> "addMagnet"
      [] step = "addMagnet" -> "info1"
      [] step = "info1" -> "selectFiles"
      [] step = "selectFiles" -> "unrestrict"
      [] step = "info2" -> "unrestrict"
      [] step = "unrestrict" -> "done"

NextStep(step) ==
    CASE step = "probe" -> "addMagnet"
      [] step = "addMagnet" -> "info1"
      [] step = "info1" -> "selectFiles"
      [] step = "selectFiles" -> "info2"
      [] step = "info2" -> "unrestrict"
      [] step = "unrestrict" -> "done"

\* the code that runs with the answer of a step raises inside the try:
\* addMagnet["uri"], getMagnetInfo["links"][0] and unrestrictLink["download"]
\* index the answer; the probe's text, the first torrent info (only its
\* "files" are read by the generator of the selection) and the answer of
\* selectFiles are not inspected
RaisesAt(step, outcome, selection) ==
    \/ outcome = "exception"
    \/ outcome = "error" /\ step \in {"addMagnet", "info2", "unrestrict"}
    \/ step = "info2" /\ selection # <<"ok">>

\* except Exception: return "https://comet.fast"; the handler redirects to it
Fallback(p) ==
    /\ caught' = [caught EXCEPT ![p] = TRUE]
    /\ downloadLink' = [downloadLink EXCEPT ![p] = FallbackUrl]
    /\ playback' = [playback EXCEPT ![p] = "redirect"]
    /\ dl_pc' = [dl_pc EXCEPT ![p] = "done"]

\* the await at step returns with outcome, and the code up to the next await runs
Resume(p, step, outcome) ==
    /\ failed' = [failed EXCEPT ![p] = IF outcome = "ok" THEN @ ELSE @ \cup {step}]
    /\ IF RaisesAt(step, outcome, selectFile[p])
          THEN Fallback(p)
          ELSE /\ dl_pc' = [dl_pc EXCEPT ![p] = NextStep(step)]
               /\ UNCHANGED caught
               /\ IF NextStep(step) = "done"
                     THEN /\ downloadLink' = [downloadLink EXCEPT ![p] = DirectUrl]
                          /\ playback' = [playback EXCEPT ![p] = "redirect"]
                     ELSE UNCHANGED <<downloadLink, playback>>

\* playback handlers: configChecking, then generateDownloadLink is entered
PlaybackStart(p) ==
    /\ dl_pc[p] = "idle"
    /\ \E config \in Configs \cup {ConfigBad} :
          IF ~ ConfigCheck(config)
            THEN /\ dl_pc' = [dl_pc EXCEPT ![p] = "done"]
                 /\ playback' = [playback EXCEPT ![p] = "null"]
            ELSE /\ dl_pc' = [dl_pc EXCEPT ![p] = "probe"]
                 /\ UNCHANGED playback
    /\ UNCHANGED <<proxy, addMagnet, selectFile, getMagnetInfo, unrestrictLink,
                   caught, downloadLink, failed>>
    /\ UNCHANGED vars
    /\ UNCHANGED tvars
    /\ UNCHANGED hvars

\* GET real-debrid.com/vpn: the proxy is used when the text says the address is blocked
CheckBlacklisted(p) ==
    /\ dl_pc[p] = "probe"
    /\ \E outcome \in CallOutcomes, blocked \in BOOLEAN :
          /\ blocked => outcome = "ok"
          /\ Resume(p, "probe", outcome)
          /\ proxy' = [proxy EXCEPT ![p] = IF blocked THEN <<"DEBRID_PROXY_URL">> ELSE <<>>]
    /\ UNCHANGED <<addMagnet, selectFile, getMagnetInfo, unrestrictLink>>
    /\ UNCHANGED vars
    /\ UNCHANGED tvars
    /\ UNCHANGED hvars

\* POST torrents/addMagnet
AddMagnet(p) ==
    /\ dl_pc[p] = "addMagnet"
    /\ \E outcome \in CallOutcomes :
          /\ Resume(p, "addMagnet", outcome)
          /\ addMagnet' = [addMagnet EXCEPT ![p] =
                              IF RaisesAt("addMagnet", outcome, selectFile[p]) THEN @ ELSE <<"uri">>]
    /\ UNCHANGED <<proxy, selectFile, getMagnetInfo, unrestrictLink>>
    /\ UNCHANGED vars
    /\ UNCHANGED tvars
    /\ UNCHANGED hvars

\* GET addMagnet["uri"], the first read of the torrent info
MagnetInfo(p) ==
    /\ dl_pc[p] = "info1"
    /\ \E outcome \in CallOutcomes :
          /\ Resume(p, "info1", outcome)
          /\ getMagnetInfo' = [getMagnetInfo EXCEPT ![p] =
                                  IF RaisesAt("info1", outcome, selectFile[p]) THEN @ ELSE "files"]
    /\ UNCHANGED <<proxy, addMagnet, selectFile, unrestrictLink>>
    /\ UNCHANGED vars
    /\ UNCHANGED tvars
    /\ UNCHANGED hvars

\* POST torrents/selectFiles
SelectFilesCall(p) ==
    /\ dl_pc[p] = "selectFiles"
    /\ \E outcome \in CallOutcomes :
          /\ Resume(p, "selectFiles", outcome)
          /\ selectFile' = [selectFile EXCEPT ![p] =
                               IF RaisesAt("selectFiles", outcome, selectFile[p]) THEN @ ELSE <<outcome>>]
    /\ UNCHANGED <<proxy, addMagnet, getMagnetInfo, unrestrictLink>>
    /\ UNCHANGED vars
    /\ UNCHANGED tvars
    /\ UNCHANGED hvars

\* GET addMagnet["uri"] again, the read that carries the links
MagnetLinks(p) ==
    /\ dl_pc[p] = "info2"
    /\ \E outcome \in CallOutcomes :
          /\ Resume(p, "info2", outcome)
          /\ getMagnetInfo' = [getMagnetInfo EXCEPT ![p] =
                                  IF RaisesAt("info2", outcome, selectFile[p]) THEN @ ELSE "links"]
    /\ UNCHANGED <<proxy, addMagnet, selectFile, unrestrictLink>>
    /\ UNCHANGED vars
    /\ UNCHANGED tvars
    /\ UNCHANGED hvars

\* POST unrestrict/link, return unrestrictLink["download"], RedirectResponse
Unrestrict(p) ==
    /\ dl_pc[p] = "unrestrict"
    /\ \E outcome \in CallOutcomes :
          /\ Resume(p, "unrestrict", outcome)
          /\ unrestrictLink' = [unrestrictLink EXCEPT ![p] =
                                   IF RaisesAt("unrestrict", outcome, selectFile[p]) THEN @ ELSE <<"download">>]
    /\ UNCHANGED <<proxy, addMagnet, selectFile, getMagnetInfo>>
    /\ UNCHANGED vars
    /\ UNCHANGED tvars
    /\ UNCHANGED hvars

NextPlayback ==
    \/ \E p \in Plays : PlaybackStart(p)
    \/ \E p \in Plays : CheckBlacklisted(p)
    \/ \E p \in Plays : AddMagnet(p)
    \/ \E p \in Plays : MagnetInfo(p)
    \/ \E p \in Plays : SelectFilesCall(p)
    \/ \E p \in Plays : MagnetLinks(p)
    \/ \E p \in Plays : Unrestrict(p)

\* the playback endpoints of comet/main.py, no stream request in flight
InitPlayback == Init /\ flow = "main" /\ cache = <<>>

SpecPlayback == InitPlayback /\ [][NextPlayback]_allvars

\* every await of generateDownloadLink returns or raises: the session's calls
\* are bounded by the client timeout, so a suspended playback is resumed
PlaybackFairness ==
    \A p \in Plays :
        /\ WF_allvars(CheckBlacklisted(p))
        /\ WF_allvars(AddMagnet(p))
        /\ WF_allvars(MagnetInfo(p))
        /\ WF_allvars(SelectFilesCall(p))
        /\ WF_allvars(MagnetLinks(p))
        /\ WF_allvars(Unrestrict(p))

SpecPlaybackFair == SpecPlayback /\ PlaybackFairness

(* ------------------ timeouts of the backend calls ---------------------- *)

\* GET_TORRENT_TIMEOUT (5 s), INDEXER_MANAGER_TIMEOUT (30 s) and the total of
\* aiohttp's default ClientTimeout of a session made without one (300 s), in
\* clock ticks that keep their order
GET_TORRENT_TIMEOUT == 1

INDEXER_MANAGER_TIMEOUT == 2

DEFAULT_TIMEOUT == 3

\* the window the deployment configures for a call of this kind
OwnWindow(at) ==
    IF at = "get" THEN GET_TORRENT_TIMEOUT ELSE INDEXER_MANAGER_TIMEOUT

\* the timeout in force for a call: the one passed to session.get, else the
\* default of the session; the two calls of the prowlarr branch pass none
TimeoutOf(managerType, at) ==
    IF at = "get" THEN GET_TORRENT_TIMEOUT
    ELSE IF managerType = "jackett" THEN INDEXER_MANAGER_TIMEOUT
    ELSE DEFAULT_TIMEOUT

Pending(call) == call.at \notin {"idle", "done"}

\* session.get is entered: the backend answers this call or never does
Issue(at, hung) == [at |-> at, waited |-> 0, hung |-> hung, result |-> "none"]

\* the coroutine returned: results, or None after except Exception
Ended(result) == [at |-> "done", waited |-> 0, hung |-> FALSE, result |-> result]

\* the first call of getIndexerManager for the backend kind
FirstCall(managerType) == IF managerType = "jackett" THEN "search" ELSE "indexers"

\* the handler reaches asyncio.gather over the sub-queries
StartQueries ==
    /\ t_pc = "idle"
    /\ \E managerType \in {"jackett", "prowlarr"}, type \in Types,
          hung \in [QueryTasks -> BOOLEAN] :
          /\ indexerManagerType' = managerType
          /\ calls' = [t \in Tasks |->
                          IF t = "title" \/ (t = "episode" /\ type = "series")
                            THEN Issue(FirstCall(managerType), hung[t])
                            ELSE IF t \in QueryTasks THEN Ended("None") ELSE NoCall]
    /\ t_pc' = "search"
    /\ UNCHANGED t_response
    /\ UNCHANGED <<vars, pvars, hvars>>

\* the backend answers the call of task t, and the coroutine runs to its next
\* await or to its return
Responds(t) ==
    /\ Pending(calls[t])
    /\ ~ calls[t].hung
    /\ \E ok \in BOOLEAN, hung \in BOOLEAN :
          calls' = [calls EXCEPT ![t] =
                      IF ~ ok THEN Ended("None")
                      ELSE IF @.at = "indexers" THEN Issue("search", hung)
                      ELSE Ended("results")]
    /\ UNCHANGED <<indexerManagerType, t_pc, t_response>>
    /\ UNCHANGED <<vars, pvars, hvars>>

\* the timeout in force for the call of task t expires: asyncio.TimeoutError
\* is caught by except Exception, the coroutine returns None
TimesOut(t) ==
    /\ Pending(calls[t])
    /\ calls[t].waited >= TimeoutOf(indexerManagerType, calls[t].at)
    /\ calls' = [calls EXCEPT ![t] = Ended("None")]
    /\ UNCHANGED <<indexerManagerType, t_pc, t_response>>
    /\ UNCHANGED <<vars, pvars, hvars>>

\* time passes for every call in flight; a timeout fires before time passes it
TickCalls ==
    /\ \E t \in Tasks : Pending(calls[t])
    /\ \A t \in Tasks :
          Pending(calls[t]) => calls[t].waited < TimeoutOf(indexerManagerType, calls[t].at)
    /\ calls' = [t \in Tasks |->
                    IF Pending(calls[t]) THEN [calls[t] EXCEPT !.waited = @ + 1] ELSE calls[t]]
    /\ UNCHANGED <<indexerManagerType, t_pc, t_response>>
    /\ UNCHANGED <<vars, pvars, hvars>>

\* the candidates the sub-queries returned, one per sub-query that answered
Found == {t \in QueryTasks : calls[t].result = "results"}

\* asyncio.gather over the sub-queries returns; one fetch per candidate
GatherQueries ==
    /\ t_pc = "search"
    /\ \A t \in QueryTasks : calls[t].at = "done"
    /\ IF Found = {}
          THEN /\ t_pc' = "returned"
               /\ t_response' = "empty"
               /\ UNCHANGED calls
          ELSE /\ t_pc' = "resolve"
               /\ \E hung \in [FetchTasks -> BOOLEAN] :
                     calls' = [t \in Tasks |->
                                 IF t = "fetch1" \/ (t = "fetch2" /\ Found = QueryTasks)
                                   THEN Issue("get", hung[t])
                                   ELSE IF t \in FetchTasks THEN Ended("None") ELSE calls[t]]
               /\ UNCHANGED t_response
    /\ UNCHANGED indexerManagerType
    /\ UNCHANGED <<vars, pvars, hvars>>

\* asyncio.gather over the fetches returns; the rest of the handler has no
\* call of these two kinds
GatherHashes ==
    /\ t_pc = "resolve"
    /\ \A t \in FetchTasks : calls[t].at = "done"
    /\ t_pc' = "returned"
    /\ t_response' = IF \E t \in FetchTasks : calls[t].result = "results"
                       THEN "streams" ELSE "empty"
    /\ UNCHANGED <<indexerManagerType, calls>>
    /\ UNCHANGED <<vars, pvars, hvars>>

NextTimeouts ==
    \/ StartQueries
    \/ \E t \in Tasks : Responds(t)
    \/ \E t \in Tasks : TimesOut(t)
    \/ TickCalls
    \/ GatherQueries
    \/ GatherHashes

\* one request of comet/main.py from the search on, nothing else in flight
InitTimeouts == Init /\ flow = "main" /\ cache = <<>>

SpecTimeouts == InitTimeouts /\ [][NextTimeouts]_allvars

(* ------------- the info hash of a fetched torrent file ----------------- *)

\* bencoded data as its tokens: "d" and "e" delimit a dictionary, every other
\* token is a byte string or an integer
InfoDicts ==
    { <<"d", "4:name", "5:movie", "e">>,
      <<"d", "6:length", "i7e", "4:name", "5:movie", "e">>,
      <<"d", "4:name", "5:movie", "6:length", "i7e", "e">>,
      <<"d", "6:length", "i9e", "4:name", "5:movie", "e">> }

\* top-level metadata before and after the info dictionary
MetaBefore == { <<>>, <<"8:announce", "3:url">>, <<"8:announce", "3:alt">> }

MetaAfter == { <<>>, <<"8:url-list", "3:web">> }

\* a torrent file around an info dictionary
TorrentFile(before, info, after) ==
    <<"d">> \o before \o <<"4:info">> \o info \o after \o <<"e">>

TorrentFiles ==
    { [info |-> info, torrentData |-> TorrentFile(before, info, after)] :
        before \in MetaBefore, info \in InfoDicts, after \in MetaAfter }

\* dict[key] = value, a later occurrence of a key replacing the earlier one
Put(dict, key, atom, value) ==
    IF \E j \in 1..Len(dict) : dict[j].k = key
      THEN [j \in 1..Len(dict) |->
              IF dict[j].k = key THEN [k |-> key, atom |-> atom, v |-> value] ELSE dict[j]]
      ELSE Append(dict, [k |-> key, atom |-> atom, v |-> value])

\* bencodepy.decode from token i of a dictionary on: key, value, ... "e"
RECURSIVE DecodeItems(_, _, _)
DecodeItems(data, i, acc) ==
    IF data[i] = "e" THEN [dict |-> acc, next |-> i + 1]
    ELSE IF data[i + 1] = "d"
      THEN LET sub == DecodeItems(data, i + 2, <<>>)
           IN  DecodeItems(data, sub.next, Put(acc, data[i], FALSE, sub.dict))
      ELSE DecodeItems(data, i + 2, Put(acc, data[i], TRUE, data[i + 1]))

\* bencodepy.decode(torrentData)
BDecode(data) == DecodeItems(data, 2, <<>>).dict

\* the keys in the order bencodepy.encode writes them: sorted as raw bytes
SortedKeys == <<"8:announce", "4:info", "6:length", "4:name", "8:url-list">>

\* bencodepy.encode of a dictionary: "d", the items by sorted key, "e"
RECURSIVE BEncode(_)
RECURSIVE EncodeItems(_, _)
EncodeItems(dict, j) ==
    IF j > Len(SortedKeys) THEN <<>>
    ELSE LET at == {n \in 1..Len(dict) : dict[n].k = SortedKeys[j]}
         IN  (IF at = {} THEN <<>>
              ELSE LET item == dict[CHOOSE n \in at : TRUE]
                   IN  <<item.k>> \o (IF item.atom THEN <<item.v>> ELSE BEncode(item.v)))
             \o EncodeItems(dict, j + 1)

BEncode(dict) == <<"d">> \o EncodeItems(dict, 1) \o <<"e">>

\* torrentDict[b"info"]
InfoOf(torrentDict) ==
    torrentDict[CHOOSE n \in 1..Len(torrentDict) : torrentDict[n].k = "4:info"].v

\* hashlib.sha1(...).hexdigest(): one digest per byte string, no collision
\* among the few inputs here
Sha1HexDigest(bytes) == [sha1 |-> bytes]

\* a derivation that digests the file as it was fetched
TorrentFileHashOfData(torrentData) == Sha1HexDigest(torrentData)

\* the status 200 branch of getTorrentHash
TorrentFileHash(torrentData) ==
    Sha1HexDigest(BEncode(InfoOf(BDecode(torrentData))))

\* a fetch answers 200 with a torrent file, the hash is derived from it
ResolveFile ==
    /\ \E file \in TorrentFiles :
          resolutions' = resolutions \cup
              {[info |-> file.info, torrentData |-> file.torrentData,
                hash |-> TorrentFileHash(file.torrentData)]}
    /\ Cardinality(resolutions') <= MaxResolutions
    /\ resolutions' # resolutions
    /\ UNCHANGED <<vars, pvars, tvars>>

NextHashes == ResolveFile

InitHashes == Init /\ flow = "main" /\ cache = <<>>

SpecHashes == InitHashes /\ [][NextHashes]_allvars

(* ----------------------------- properties ----------------------------- *)

Started(r) == pc[r] # "idle" /\ ConfigCheck(req[r].config)

\* request r executes the step it is suspended at
Steps(r, label) == pc[r] = label /\ pc'[r] # label

\* the ranked dict the cache holds for a key
StoredDict(k) == JsonLoads(RowsOf(cache, k)[1].results)

\* C1: after store(F, X) the entry of F is X, and after a second store(F, Y)
\* on the existing entry it is Y; no store raises a duplicate-key error
C1_StoreReplaces ==
    /\ \A s \in lastStore :
          Exists(cache, s.cacheKey) => StoredDict(s.cacheKey) = s.dict
    /\ \A r \in Req : response[r] # Raised("IntegrityError")

\* another request that missed on the same key has executed its store
RacedBy(r) ==
    \E q \in Req \ {r} :
        /\ Started(q)
        /\ CacheKey(q) = CacheKey(r)
        /\ via[q] = "miss"
        /\ "ResultCache.store" \in events[q]

\* C2: of two requests that both missed on the same key, the one whose store
\* executes last does not fail, returns its streams, and leaves its own
\* ranked set in the cache
C2_RacingStoresReplace ==
    [][\A r \in Req :
          (Steps(r, "store") /\ via[r] = "miss" /\ RacedBy(r))
             => /\ response'[r] = Returned(MissStreams(flow, ranked[r], req[r].config))
                /\ RowsOf(cache', CacheKey(r)) = <<RowOf(CacheKey(r), ranked[r], stmt_time[r])>>]_vars

\* the timestamp read of request r finds a row of this age
ReadsAge(r, age) ==
    /\ Steps(r, "timestamp")
    /\ RowsOf(cache, CacheKey(r)) # <<>>
    /\ age = now - RowsOf(cache, CacheKey(r))[1].timestamp

DeletedExpired(q) ==
    /\ via[q] = "expired"
    /\ pc[q] \notin {"timestamp", "delete"}

\* no store on the key since its entry was deleted
NotStoredSince(k) == \A s \in lastStore : s.cacheKey # k

\* C4: the lookup that finds an entry older than TTL leaves no entry of the
\* key, and a further lookup of the key with no store in between misses
\* and leaves the cache as it is
C4_ExpiredEntryIsGone ==
    [][\A r \in Req :
          /\ \A age \in 0..MaxTime :
                (ReadsAge(r, age) /\ CACHE_TTL < age) => pc'[r] = "delete"
          /\ Steps(r, "delete") => RowsOf(cache', CacheKey(r)) = <<>>
          /\ (/\ Steps(r, "exists")
              /\ NotStoredSince(CacheKey(r))
              /\ \E q \in Req \ {r} : CacheKey(q) = CacheKey(r) /\ DeletedExpired(q))
                => /\ via'[r] = "miss"
                   /\ pc'[r] = "search"
                   /\ cache' = cache]_vars

\* a second lookup misses after the first one removed the expired entry
C4_Witness ==
    \E r, q \in Req :
        /\ r # q
        /\ CacheKey(q) = CacheKey(r)
        /\ DeletedExpired(q) /\ pc[q] = "done"
        /\ "ResultCache.store" \notin events[q]
        /\ via[r] = "miss" /\ pc[r] = "search"
        /\ cache = <<>>

\* C5: the cache never holds two entries with the same fingerprint
C5_OneEntryPerKey ==
    \A i, j \in 1..Len(cache) : cache[i].cacheKey = cache[j].cacheKey => i = j

\* a store was executed on a key that had an entry
C5_Witness ==
    \E r \in Req :
        /\ pc[r] = "done"
        /\ "ResultCache.store" \in events[r]
        /\ Exists(cache, CacheKey(r))
        /\ \/ response[r] = Raised("IntegrityError")
           \/ \E s \in lastStore : s.cacheKey = CacheKey(r) /\ s.dict # StoredDict(CacheKey(r))

Pipeline == {"IndexerAggregator", "HashResolver", "AvailabilityChecker", "ResultCache.store"}

\* C6: a request served from a fresh entry returns its streams having
\* invoked nothing but the cache read and the balanced selection
C6_HitSkipsPipeline ==
    \A r \in Req :
        /\ pc[r] = "results" => events[r] = {"ResultCache"}
        /\ via[r] = "hit" =>
              /\ pc[r] = "done"
              /\ response[r].status = "returned"
              /\ events[r] \cap Pipeline = {}
              /\ events[r] \subseteq {"ResultCache", "BalancedSelector"}

\* a request has been served from the cache
C6_Witness ==
    \E r \in Req : via[r] = "hit" /\ pc[r] = "done" /\ Len(response[r].streams) > 0

\* C7: a request whose pipeline finds no candidate, no hash or no available
\* file returns the empty list and stores nothing; no entry of the cache
\* holds an empty ranked set
C7_EmptyNotCached ==
    /\ \A r \in Req :
          /\ "EmptyResult" \in events[r] =>
                /\ pc[r] = "done"
                /\ response[r] = Returned(<<>>)
                /\ "ResultCache.store" \notin events[r]
          /\ pc[r] = "store" => Len(ranked[r].keys) > 0
    /\ \A i \in 1..Len(cache) : Len(cache[i].results) > 0

\* a request whose availability check left no file has returned
C7_Witness ==
    \E r \in Req :
        /\ {"EmptyResult", "AvailabilityChecker"} \subseteq events[r]
        /\ ~ Exists(cache, CacheKey(r))

\* C8: requests that agree on debrid service, title, season, episode and
\* indexers have the same fingerprint, whatever their filters and cap
C8_KeyIgnoresFilters ==
    \A r, q \in Req :
        (/\ Started(r) /\ Started(q)
         /\ req[r].type = req[q].type
         /\ req[r].config.debridService = req[q].config.debridService
         /\ req[r].config.indexers = req[q].config.indexers)
           => CacheKey(r) = CacheKey(q)

\* every ranked dict a request can hand to the cache
AllRankedDicts ==
    UNION {{RankedToStore(type, AvailabilityOf(answered, cached)) :
               cached \in SUBSET answered, type \in Types} :
           answered \in SUBSET Hashes}

\* the hashes of an availability map with a file the request asks for
HashesWithFile(type, avail) ==
    {h \in DOMAIN avail :
        /\ avail[h].hasRd
        /\ \E f \in Range(Flatten(avail[h].rd)) : FileMatches(type, f)}

SelectedFrom(entry, rd, season, episode) ==
    /\ \E f \in Range(Flatten(rd)) :
          f.filename = entry.title /\ f.index = entry.index /\ f.filesize = entry.size
    /\ IsVideo(entry.title)
    /\ season # <<>> =>
          /\ season[1] \in Parse(entry.title).season
          /\ episode[1] \in Parse(entry.title).episode

\* C10: every ranked entry that is about to be cached belongs to a hash the
\* availability map of its request reports with "rd"; every entry of the
\* cache carries one file, a video file of its torrent that matches the
\* season and episode of the key
C10_CachedEntriesAreSelectedFiles ==
    /\ \A r \in Req : pc[r] = "store" =>
          \A h \in Range(ranked[r].keys) :
              /\ h \in DOMAIN availability[r]
              /\ availability[r][h].hasRd
              /\ SelectedFrom(ranked[r].val[h], availability[r][h].rd,
                              ReqSeason(req[r].type), ReqEpisode(req[r].type))
    /\ \A i \in 1..Len(cache) :
          LET d == JsonLoads(cache[i].results) IN
          /\ Len(d.keys) = Len(cache[i].results)
          /\ \A h \in Range(d.keys) :
                SelectedFrom(d.val[h], RdOf(Canon(h)),
                             cache[i].cacheKey.season, cache[i].cacheKey.episode)

\* the cache holds the entry of a series request
C10_Witness ==
    \E i \in 1..Len(cache) :
        /\ cache[i].cacheKey.season = <<2>>
        /\ \E r \in Req :
              /\ CacheKey(r) = cache[i].cacheKey
              /\ "ResultCache.store" \in events[r]

\* the files of a hash that the request asks for
Matching(type, details) ==
    {f \in Range(Flatten(details.rd)) : details.hasRd /\ FileMatches(type, f)}

\* C11: the selection holds a hash of the availability map exactly when the
\* hash has a file that is video and, for a series, of the requested season
\* and episode; it holds the hash once, with one of those files; of S02E04
\* and S02E05 the episode-5 file is taken for season 2 episode 5
C11_OneMatchingFilePerHash ==
    [][\A r \in Req :
          (Steps(r, "avail") /\ pc'[r] = "store") =>
             LET avail == availability'[r]
                 d     == ranked'[r]
             IN /\ Range(d.keys) \subseteq DOMAIN avail
                /\ \A i, j \in 1..Len(d.keys) : d.keys[i] = d.keys[j] => i = j
                /\ \A h \in DOMAIN avail :
                      IF Matching(req[r].type, avail[h]) = {}
                      THEN h \notin Range(d.keys)
                      ELSE /\ h \in Range(d.keys)
                           /\ \E f \in Matching(req[r].type, avail[h]) :
                                 /\ d.val[h].title = f.filename
                                 /\ d.val[h].index = f.index
                                 /\ d.val[h].size = f.filesize
                /\ (req[r].type = "series" /\ "H1" \in Range(d.keys))
                      => d.val["H1"].title = "S02E05.1080p.mkv"]_vars

\* a series request kept the episode-5 file of one cached torrent and
\* dropped another cached torrent that has no file of the episode
C11_Witness ==
    \E r \in Req :
        /\ pc[r] = "store"
        /\ req[r].type = "series"
        /\ "H1" \in Range(ranked[r].keys)
        /\ ranked[r].val["H1"].title = "S02E05.1080p.mkv"
        /\ \E h \in DOMAIN availability[r] :
              availability[r][h].hasRd /\ h \notin Range(ranked[r].keys)

\* the request got as far as the cache lookup: its streams are results
Served(r) ==
    /\ pc[r] = "done"
    /\ response[r].status = "returned"
    /\ "ResultCache" \in events[r]

\* C12: a served request has at most maxResults streams, and each stream is
\* of a resolution its allow-list admits (or of no parsed resolution), on
\* the miss path and on the hit path
C12_CapAndAllowList ==
    \A r \in Req :
        Served(r) =>
            /\ Len(response[r].streams) <= req[r].config.maxResults
            /\ \A i \in 1..Len(response[r].streams) :
                  \/ SeqContains(req[r].config.resolutions, "All")
                  \/ response[r].streams[i].name = "Unknown"
                  \/ SeqContains(req[r].config.resolutions, response[r].streams[i].name)

\* the ranks of a list of file names never go up
Descending(names) ==
    \A i, j \in 1..Len(names) : i < j => RankOf(names[i]) >= RankOf(names[j])

\* C13: the streams of a served request, the ranked dict about to be stored
\* and every cached dict are in descending rank order, whichever order the
\* candidates, hashes and availability answers came in
C13_RankOrder ==
    /\ \A r \in Req :
          /\ Served(r) =>
                Descending([i \in 1..Len(response[r].streams) |-> response[r].streams[i].title[1]])
          /\ pc[r] = "store" =>
                Descending([i \in 1..Len(ranked[r].keys) |-> ranked[r].val[ranked[r].keys[i]].title])
    /\ \A n \in 1..Len(cache) :
          LET d == JsonLoads(cache[n].results) IN
          Descending([i \in 1..Len(d.keys) |-> d.val[d.keys[i]].title])

\* a hit returned two streams of different rank, the better one of the
\* candidate the indexer listed second
C13_Witness ==
    \E r \in Req :
        /\ Served(r)
        /\ via[r] = "hit"
        /\ Len(response[r].streams) = 2
        /\ RankOf(response[r].streams[1].title[1]) > RankOf(response[r].streams[2].title[1])
        /\ response[r].streams[1].url[1] \in {"h2", "H2"}
        /\ response[r].streams[2].url[1] = "H1"

\* the request ended before its cache lookup: on its configuration, on the
\* account check or on the metadata lookup
EndedEarly(r) == Started(r) /\ pc[r] = "done" /\ "ResultCache" \notin events[r]

\* C14: a request that ends on its configuration, on the account check or
\* on the metadata lookup returns a list of one explanatory stream and
\* raises nothing
C14_FatalIsDegraded ==
    \A r \in Req :
        EndedEarly(r) =>
            /\ response[r].status = "returned"
            /\ Len(response[r].streams) = 1
            /\ response[r].streams[1].name = "[!] Comet"

\* the candidates of the sub-queries that answered
Answered(responses) ==
    UNION {Range(responses[i].results) : i \in {k \in 1..Len(responses) : ~ responses[k].isNone}}

\* every sub-query of the request failed
AllFailed(responses) ==
    /\ responses # <<>>
    /\ \A i \in 1..Len(responses) : responses[i].isNone

\* the search step never raises; the candidates of every sub-query that
\* answered are collected, whatever the other one did; a request leaves the
\* search with candidates only if a sub-query answered
SubQueriesTolerated(r) ==
    Steps(r, "search") =>
        /\ response'[r].status # "raised"
        /\ pc'[r] \in {"done", "zilean", "hashes"}
        /\ pc'[r] = "done" => response'[r] = Returned(<<>>)
        /\ pc'[r] = "zilean" => Range(torrents'[r]) = Answered(search_response'[r])
        /\ pc'[r] = "hashes" =>
              /\ ~ AllFailed(search_response'[r])
              /\ \A c \in Answered(search_response'[r]) :
                    \/ c \in Range(torrents'[r])
                    \/ TasksOf(flow, <<c>>, req[r].config) = <<>>
              /\ Range(torrents'[r]) \subseteq Answered(search_response'[r])

\* C15, as stated: a failed sub-query is skipped, and a request whose
\* sub-queries all failed returns the empty list
C15_AllFailedIsEmpty ==
    [][\A r \in Req :
          /\ SubQueriesTolerated(r)
          /\ (Steps(r, "zilean") /\ AllFailed(search_response[r]))
                => (pc'[r] = "done" /\ response'[r] = Returned(<<>>))]_vars

\* C15, amended: a failed sub-query is skipped; a request whose sub-queries
\* all failed returns the empty list unless the Zilean lookup adds
\* candidates, and it never raises at the search
C15_FailedSubQuerySkipped ==
    [][\A r \in Req :
          /\ SubQueriesTolerated(r)
          /\ (Steps(r, "zilean") /\ AllFailed(search_response[r]))
                => \/ pc'[r] = "done" /\ response'[r] = Returned(<<>>)
                   \/ /\ pc'[r] = "hashes"
                      /\ response'[r].status = "none"
                      /\ \A c \in Range(torrents'[r]) : c.zilean]_vars

\* a series request whose title sub-query failed goes on with the
\* candidate of its episode sub-query
C15_Witness ==
    \E r \in Req :
        /\ pc[r] = "hashes"
        /\ Len(search_response[r]) = 2
        /\ search_response[r][1].isNone
        /\ ~ search_response[r][2].isNone
        /\ torrents[r] = <<Cand1>>

\* C16: the availability step never ends the request with an exception: a
\* hash whose lookup fails is left out and the request goes on
C16_AvailabilityFailureIsOmission ==
    [][\A r \in Req :
          Steps(r, "avail") =>
             /\ response'[r].status # "raised"
             /\ pc'[r] = "store" => DOMAIN availability'[r] \subseteq torrent_hashes[r]]_vars

\* the hashes that candidates carry as a hint
Hinted(tasks) == UNION {Range(tasks[i].InfoHash) : i \in 1..Len(tasks)}

\* C17: the hash-resolution step never ends the request with an exception;
\* a candidate whose resolution fails adds no hash and the hashes of the
\* other candidates are passed on
C17_ResolutionFailureIsSkipped ==
    [][\A r \in Req :
          Steps(r, "hashes") =>
             /\ response'[r].status # "raised"
             /\ Hinted(torrents[r]) # {} =>
                   (pc'[r] = "avail" /\ Hinted(torrents[r]) \subseteq torrent_hashes'[r])]_vars

\* C18: every resolved hash is in upper case, and the deduplicated set
\* handed to the availability check holds no two strings of one info hash
C18_HashesCanonical ==
    \A r \in Req :
        /\ \A h \in torrent_hashes[r] : h = Upper(h)
        /\ \A h, k \in torrent_hashes[r] : Canon(h) = Canon(k) => h = k


\* C19: the playback handler always redirects to a URL: the direct URL when no
\* step of the resolution failed, the fallback URL when any of the six steps
\* failed
C19_AnyFailureIsFallback ==
    \A p \in Plays :
        playback[p] = "redirect" =>
            downloadLink[p] = IF failed[p] = {} THEN DirectUrl ELSE FallbackUrl

\* the state of one resolution, read from what generateDownloadLink holds
Stage(p) ==
    IF dl_pc[p] = "idle" \/ playback[p] = "null" THEN "None"
    ELSE IF caught[p] THEN "Failed"
    ELSE IF unrestrictLink[p] # <<>> THEN "Unrestricted"
    ELSE IF getMagnetInfo[p] = "links" THEN "LinksReady"
    ELSE IF selectFile[p] # <<>> THEN "FilesSelected"
    ELSE IF addMagnet[p] # <<>> THEN "Added"
    ELSE "NotAdded"

StageRank(stage) ==
    CASE stage = "None" -> 0
      [] stage = "NotAdded" -> 1
      [] stage = "Added" -> 2
      [] stage = "FilesSelected" -> 3
      [] stage = "LinksReady" -> 4
      [] stage = "Unrestricted" -> 5
      [] stage = "Failed" -> 6

Terminal == {"Unrestricted", "Failed"}

\* one step of the chain, or the move to Failed from a state that is not terminal
StageMove(from, to) ==
    \/ to = from
    \/ from \notin Terminal /\ to # "Failed" /\ StageRank(to) = StageRank(from) + 1
    \/ from \notin Terminal \cup {"None"} /\ to = "Failed"

\* the URL handed to the redirect is the one of the terminal state reached
YieldsUrlOfStage(p) ==
    /\ (downloadLink[p] = DirectUrl) <=> (Stage(p) = "Unrestricted")
    /\ (downloadLink[p] = FallbackUrl) <=> (Stage(p) = "Failed")
    /\ downloadLink[p] \in {"none", DirectUrl, FallbackUrl}

\* C20: a resolution moves along NotAdded, Added, FilesSelected, LinksReady,
\* Unrestricted one state at a time or to Failed from a non-terminal state,
\* never leaves a terminal state, yields the direct URL exactly in
\* Unrestricted and the fallback URL exactly in Failed, and under fairness a
\* resolution that started reaches Unrestricted or Failed
C20_ResolutionStateMachine ==
    /\ [][\A p \in Plays : StageMove(Stage(p), Stage(p)')]_pvars
    /\ [](\A p \in Plays : YieldsUrlOfStage(p))
    /\ \A p \in Plays : (Stage(p) # "None") ~> (Stage(p) \in Terminal)

\* one resolution went through the whole chain, another failed after the
\* magnet was added
C20_Witness ==
    \E p, q \in Plays :
        /\ Stage(p) = "Unrestricted" /\ getMagnetInfo[p] = "links" /\ selectFile[p] = <<"ok">>
        /\ Stage(q) = "Failed" /\ addMagnet[q] # <<>>


\* C21: every indexer query and every hash-resolution fetch is ended by its
\* own timeout, for jackett and for prowlarr: no call of a request is in
\* flight for longer than the window configured for its kind
C21_OwnTimeoutBoundsEveryCall ==
    \A t \in Tasks :
        Pending(calls[t]) => calls[t].waited <= OwnWindow(calls[t].at)



\* C22: the hash derived from a fetched torrent file depends only on its info
\* dictionary: files with the same info dictionary and different top-level
\* metadata get the same hash, files with different info dictionaries do not;
\* an info dictionary is its set of items, whatever order the file lists them in
C22_HashDependsOnInfoOnly ==
    \A x, y \in resolutions :
        /\ Range(BDecode(x.info)) = Range(BDecode(y.info)) <=> x.hash = y.hash

\* two files that differ in their metadata only were resolved
C22_Witness ==
    \E x, y \in resolutions :
        /\ x.info = y.info
        /\ x.torrentData # y.torrentData
        /\ x.hash = y.hash


\* C23: a request whose entry was deleted by another request between its
\* existence check and its read of the timestamp or of the results does not
\* raise on the missing row: it goes on as a miss
C23_LookupSurvivesDelete ==
    [][\A r \in Req :
          /\ Steps(r, "timestamp") \/ Steps(r, "results")
          /\ RowsOf(cache, CacheKey(r)) = <<>>
          => response'[r].status # "raised"]_vars


\* C24: a lookup deletes an entry only if that entry is at least TTL old when
\* it is deleted, whatever the other requests did since the lookup read the
\* timestamp
C24_DeletesOnlyExpiredEntry ==
    [][\A r \in Req :
          /\ Steps(r, "delete")
          /\ RowsOf(cache, CacheKey(r)) # <<>>
          => now - RowsOf(cache, CacheKey(r))[1].timestamp >= CACHE_TTL]_vars


\* the rows of the table whose key is not k
OtherRows(c, k) == {row \in Range(c) : row.cacheKey # k}

\* C25: a step of a request with fingerprint F leaves every entry of another
\* fingerprint as it is (existence, ranked set, timestamp), on every path
C25_OtherEntriesUntouched ==
    [][\A r \in Req :
          pc'[r] # pc[r] =>
              IF pc[r] = "idle" THEN cache' = cache
              ELSE OtherRows(cache', CacheKey(r)) = OtherRows(cache, CacheKey(r))]_vars

\* a request deleted its expired entry and stored a new one while the table
\* held an entry of another fingerprint
C25_Witness ==
    \E r \in Req :
        /\ pc[r] = "done"
        /\ via[r] = "expired"
        /\ "ResultCache.store" \in events[r]
        /\ OtherRows(cache, CacheKey(r)) # {}


\* request r reads, in this step, a row of its key that is there
ReadsRow(r, label) ==
    /\ Steps(r, label)
    /\ RowsOf(cache, CacheKey(r)) # <<>>

\* the age of the entry of request r's key
AgeOfEntry(r) == now - RowsOf(cache, CacheKey(r))[1].timestamp

\* C26, as stated: a fresh hit leaves the entry as it is, and the entry is
\* not older than TTL when its results are read and served
C26_ServedWithinTtl ==
    [][\A r \in Req :
          ReadsRow(r, "results") => cache' = cache /\ AgeOfEntry(r) <= CACHE_TTL]_vars

\* C26: a fresh hit leaves the table as it is in each of its three reads, so
\* hits do not extend the lifetime of an entry, and an entry is served only
\* by a lookup that read its timestamp no later than TTL after the store
C26_HitIsReadOnly ==
    [][\A r \in Req :
          /\ ReadsRow(r, "exists") => cache' = cache
          /\ ReadsRow(r, "timestamp") /\ pc'[r] = "results" =>
                cache' = cache /\ AgeOfEntry(r) <= CACHE_TTL
          /\ ReadsRow(r, "results") =>
                cache' = cache /\ response'[r].status = "returned"]_vars

\* two hits on the persisted entry, after time passed: the entry is as stored
C26_Witness ==
    /\ now > 0
    /\ cache = <<PersistedRow(flow)>>
    /\ \A r \in Req : pc[r] = "done" /\ via[r] = "hit"


\* the account check of request r failed
AccountRejected(r) ==
    /\ pc[r] = "done"
    /\ response[r] = Returned(Degraded("Invalid account."))

\* C27: the account check comes before the cache lookup: up to and including
\* the check a request neither reads nor writes the cache, and a request
\* whose check failed has read no cache entry, has run no search, gets the
\* one explanatory stream and has left the table as it was
C27_AccountCheckFirst ==
    /\ [][\A r \in Req :
            pc[r] \in {"idle", "premium"} /\ pc'[r] # pc[r] =>
                /\ cache' = cache
                /\ events'[r] = {}
                /\ pc'[r] \in {"premium", "metadata", "done"}]_vars
    /\ [](\A r \in Req :
            AccountRejected(r) =>
                /\ events[r] = {}
                /\ via[r] = "none"
                /\ Len(response[r].streams) = 1
                /\ response[r].streams[1].url = <<"https://comet.fast", None>>)

\* a request was turned away on its account while the table held an entry of
\* its fingerprint
C27_Witness ==
    \E r \in Req :
        /\ AccountRejected(r)
        /\ Exists(cache, CacheKey(r))

====
